---- MODULE Spec2Model ----
(***************************************************************************)
(* udp-mangler: the three worker threads (listen_main, mangle_main,        *)
(* forward_main), the channels between them and the Mangler controller     *)
(* (new, update_config, stop, wait_until_complete, Drop).                  *)
(*                                                                         *)
(* Time is an integer clock.  One unit is the 100 ms of                    *)
(* DEFAULT_POLL_INTERVAL and of the socket timeouts.  Computation takes no *)
(* time: the clock advances only when every running worker is blocked in a *)
(* wait that has not expired.  Instant::now() reads the clock.  A worker   *)
(* action runs the thread from the return of one blocking call to the      *)
(* entry of the next one.                                                  *)
(***************************************************************************)
EXTENDS Integers, Sequences, FiniteSets, TLC

\* ---------------------------------------------------------------- bounds
MaxTime == 4
MaxPackets == 2      \* datagrams received in DataSpec
LifePackets == 1     \* datagrams received in Spec
MaxUpdates == 1

\* ------------------------------------------------------ program constants
DEFAULT_POLL_INTERVAL == 1
READ_TIMEOUT == 1
WRITE_TIMEOUT == 1

\* loss_factor and the draw rng.random::<f64>() are counted in units of
\* 1/LossScale: loss_factor ranges over 0..LossScale (0.0 to 1.0 inclusive),
\* the draw over 0..LossScale-1 (the half-open interval [0, 1)).
LossScale == 2

\* ------------------------------------------------------------- data model
\* ManglerConfig values the controller publishes.
ManglerConfig(b, m, l, p, j) ==
    [buffer_size |-> b, max_payload_size |-> m, loss_factor |-> l,
     ping_secs |-> p, jitter_secs |-> j]

Configs ==
    { ManglerConfig(3, 1, 0, 2, 1),
      ManglerConfig(2, 2, LossScale, 1, 0),
      ManglerConfig(3, 2, 1, 0, 0) }

\* Datagrams that may arrive on the listening socket.
Datagrams == { <<7>>, <<7, 8>>, <<7, 8, 9>> }

None == [none |-> TRUE]

\* A Packet; id is the arrival number of the datagram (not a field of the
\* program's Packet: it names the packet in the properties and takes no part
\* in any comparison the program makes).
Packet(i, ts, c) == [id |-> i, send_timestamp |-> ts, content |-> c]

Max(a, b) == IF a >= b THEN a ELSE b
Min(a, b) == IF a <= b THEN a ELSE b

MaxDelay ==
    LET d == { c.ping_secs + c.jitter_secs : c \in Configs }
    IN  CHOOSE x \in d : \A y \in d : y <= x

VARIABLES
    clock,          \* the monotonic clock
    config,         \* Mangler.config: the published ManglerConfig
    quit,           \* Mangler.quit
    to_mangler,     \* channel Listener -> Delay Engine
    to_forward,     \* channel Delay Engine -> Forwarder
    errs,           \* the error channel
    listen_pc, buffer_len, listen_deadline,
    mangle_pc, now, queue, next_queued,
    forward_pc, packet, forward_deadline,
    ctl, wait_result,
    \* history
    nrecv,          \* datagrams recv_from has returned so far
    mangled,        \* id -> what the policy check did with the packet
    released,       \* packets pushed to to_forward, in order, with the time
    sent,           \* contents transmitted by the Forwarder, in order
    received,       \* the datagrams that arrived at the listening socket
    exit,           \* worker -> why it terminated
    stop_time,      \* clock at the first stop(), -1 before
    nupd,           \* update_config calls so far
    published,      \* every configuration value published, in order
    bind_failed,    \* the socket call that failed in Mangler::new
    forward_checked,\* clock when the Forwarder last loaded quit
    lossy           \* some published configuration had loss_factor # 0

vars == << clock, config, quit, to_mangler, to_forward, errs,
           listen_pc, buffer_len, listen_deadline,
           mangle_pc, now, queue, next_queued,
           forward_pc, packet, forward_deadline, ctl, wait_result,
           nrecv, mangled, released, sent, received, exit, stop_time,
           nupd, lossy, published, bind_failed, forward_checked >>

listen_vars == << listen_pc, buffer_len, listen_deadline >>
mangle_vars == << mangle_pc, now, queue, next_queued >>
forward_vars == << forward_pc, packet, forward_deadline, forward_checked >>
ctl_vars == << ctl, wait_result, bind_failed >>

Workers == { "listen", "mangle", "forward" }

\* ------------------------------------------------------------------ Init
\* The state in which Mangler::new is called: the configuration, the flag
\* and the channels of lib.rs 67-72 exist, no socket has been bound and no
\* thread has been spawned.
Init ==
    /\ clock = 0
    /\ config \in Configs
    /\ quit = FALSE
    /\ to_mangler = << >>
    /\ to_forward = << >>
    /\ errs = << >>
    /\ listen_pc = "none" /\ buffer_len = 0 /\ listen_deadline = 0
    /\ mangle_pc = "none" /\ now = 0 /\ queue = {}
    /\ next_queued = 0 + DEFAULT_POLL_INTERVAL
    /\ forward_pc = "none" /\ packet = None /\ forward_deadline = 0
    /\ forward_checked = 0
    /\ ctl = "new" /\ wait_result = "none"
    /\ bind_failed = "none"
    /\ nrecv = 0
    /\ mangled = << >>
    /\ released = << >>
    /\ sent = << >>
    /\ received = << >>
    /\ exit = [w \in Workers |-> "running"]
    /\ stop_time = -1
    /\ nupd = 0
    /\ lossy = (config.loss_factor # 0)
    /\ published = << config >>

\* ----------------------------------------------------------- Mangler::new
\* The socket call of Mangler::new that fails, "none" when all succeed.
BindOutcomes == { "none", "listen_bind", "forward_bind", "forward_connect" }

\* Mutant: a failed connect is mapped like a failed listening bind.
NewManglerErr_connect_as_listener(failed) ==
    IF failed \in { "listen_bind", "forward_connect" }
    THEN "Err(Listener)" ELSE "Err(Forwarder)"

\* The map_err of each socket call: the variant that `?` returns.
NewManglerErr(failed) ==
    IF failed = "listen_bind" THEN "Err(Listener)" ELSE "Err(Forwarder)"

\* Mangler::new: bind the listening socket, bind and connect the forwarding
\* socket, each failure returning at once; only then spawn the three
\* threads and return Ok.
new(failed) ==
    /\ ctl = "new"
    /\ bind_failed' = failed
    /\ IF failed = "none"
       THEN /\ listen_pc' = "start"
            /\ mangle_pc' = "start"
            /\ forward_pc' = "start"
            /\ ctl' = "run"
       ELSE /\ ctl' = NewManglerErr(failed)
            /\ UNCHANGED << listen_pc, mangle_pc, forward_pc >>
    /\ UNCHANGED << clock, config, quit, to_mangler, to_forward, errs,
                    buffer_len, listen_deadline, now, queue, next_queued,
                    packet, forward_deadline, forward_checked, wait_result,
                    nrecv, mangled, released, sent, received, exit,
                    stop_time, nupd, published, lossy >>


\* -------------------------------------------------------------- Listener
\* listen_pc: "none" not spawned, "start" thread spawned, "recv" blocked in
\* recv_from, "done".

\* The thread returns: its socket, its senders and its locals are dropped.
ListenReturn(why) ==
    /\ listen_pc' = "done"
    /\ buffer_len' = 0
    /\ listen_deadline' = 0
    /\ exit' = [exit EXCEPT !["listen"] = why]

\* Mutant: the loop does not test quit.
ListenTop_no_quit ==
    /\ listen_pc' = "recv"
    /\ buffer_len' = config.buffer_size
    /\ listen_deadline' = clock + READ_TIMEOUT
    /\ UNCHANGED exit

\* Top of the loop: test quit, size the buffer from a fresh snapshot and
\* enter recv_from, which returns within the read timeout.
ListenTop ==
    IF quit
    THEN ListenReturn("quit")
    ELSE /\ listen_pc' = "recv"
         /\ buffer_len' = config.buffer_size
         /\ listen_deadline' = clock + READ_TIMEOUT
         /\ UNCHANGED exit

listen_start ==
    /\ listen_pc = "start"
    /\ ListenTop
    /\ UNCHANGED << clock, config, quit, to_mangler, to_forward, errs,
                    mangle_vars, forward_vars, ctl_vars, nrecv, mangled,
                    released, sent, received, stop_time, nupd, published, lossy >>

\* Mutant: only a size beyond the buffer counts as truncated.
MaybeTruncated_beyond(packet_size, len) == packet_size > len

\* The test `packet_size >= buffer.len()`.
MaybeTruncated(packet_size, len) == packet_size >= len

\* recv_from returns a datagram d: at most buffer_len bytes are stored.  A
\* size that fills the buffer is skipped; otherwise the packet is stamped
\* and pushed, and a closed channel ends the thread.
listen_recv(d) ==
    /\ listen_pc = "recv"
    /\ LET packet_size == Min(Len(d), buffer_len)
           p == Packet(nrecv + 1, clock, SubSeq(d, 1, packet_size))
       IN  /\ nrecv' = nrecv + 1
           /\ received' = Append(received, d)
           /\ IF MaybeTruncated(packet_size, buffer_len)
              THEN /\ ListenTop
                   /\ UNCHANGED to_mangler
              ELSE IF mangle_pc # "done"
              THEN /\ to_mangler' = Append(to_mangler, p)
                   /\ ListenTop
              ELSE /\ ListenReturn("closed")
                   /\ UNCHANGED to_mangler
    /\ UNCHANGED << clock, config, quit, to_forward, errs, mangle_vars,
                    forward_vars, ctl_vars, mangled, released, sent,
                    stop_time, nupd, published, lossy >>

\* recv_from returns WouldBlock / TimedOut once the read timeout has passed.
listen_timeout ==
    /\ listen_pc = "recv"
    /\ clock >= listen_deadline
    /\ ListenTop
    /\ UNCHANGED << clock, config, quit, to_mangler, to_forward, errs,
                    mangle_vars, forward_vars, ctl_vars, nrecv, mangled,
                    released, sent, received, stop_time, nupd, published, lossy >>

\* Mutant: the error path also raises the shutdown flag.
listen_error_sets_quit ==
    /\ listen_pc = "recv"
    /\ errs' = Append(errs, "listen")
    /\ quit' = TRUE
    /\ ListenReturn("error")
    /\ UNCHANGED << clock, config, to_mangler, to_forward,
                    mangle_vars, forward_vars, ctl_vars, nrecv, mangled,
                    released, sent, received, stop_time, nupd, published, lossy >>

\* recv_from returns any other error: publish it and leave the loop.
listen_error ==
    /\ listen_pc = "recv"
    /\ errs' = Append(errs, "listen")
    /\ ListenReturn("error")
    /\ UNCHANGED << clock, config, quit, to_mangler, to_forward,
                    mangle_vars, forward_vars, ctl_vars, nrecv, mangled,
                    released, sent, received, stop_time, nupd, published, lossy >>

\* ---------------------------------------------------------- Delay Engine
\* mangle_pc: "start", "wait" blocked in recv_timeout, "done".

\* BTreeSet<ByTimestamp>: Ord and Eq of ByTimestamp compare send_timestamp
\* only, so the set holds at most one packet per send_timestamp.
ByTimestampEq(a, b) == a.send_timestamp = b.send_timestamp
ByTimestampLe(a, b) == a.send_timestamp <= b.send_timestamp

\* BTreeSet::insert: an element equal to one already present is not added.
BTreeInsert(q, p) ==
    IF \E e \in q : ByTimestampEq(e, p) THEN q ELSE q \cup {p}

\* BTreeSet::last: the greatest element under Ord.
BTreeLast(q) == CHOOSE e \in q : \A o \in q : ByTimestampLe(o, e)

\* Mutant: a packet counts as due one poll interval ahead of its time.
RECURSIVE Drain_ahead(_, _, _)
Drain_ahead(q, out, t) ==
    IF q # {} /\ BTreeLast(q).send_timestamp <= t + DEFAULT_POLL_INTERVAL
    THEN Drain_ahead(q \ {BTreeLast(q)}, Append(out, BTreeLast(q)), t)
    ELSE << q, out >>

\* The inner while-let loop: pop_last and send while last() is due.
\* Result: the remaining queue and the packets sent, in order.
RECURSIVE Drain(_, _, _)
Drain(q, out, t) ==
    IF q # {} /\ BTreeLast(q).send_timestamp <= t
    THEN Drain(q \ {BTreeLast(q)}, Append(out, BTreeLast(q)), t)
    ELSE << q, out >>

\* next_queued.duration_since(now) saturates at zero.
WaitBound(nq, t) == Max(nq - t, 0)

\* The instant at which the pending recv_timeout returns Timeout.
MangleDeadline == now + WaitBound(next_queued, now)

Stamp(s, t) == [i \in 1..Len(s) |-> [pkt |-> s[i], at |-> t]]

\* The thread returns: the release queue, both channel ends and the locals
\* are dropped; packets still in to_mangler are discarded with the receiver.
MangleReturn(why) ==
    /\ mangle_pc' = "done"
    /\ now' = 0
    /\ queue' = {}
    /\ next_queued' = 0
    /\ to_mangler' = << >>
    /\ exit' = [exit EXCEPT !["mangle"] = why]

\* Top of the loop with release queue q, wake-up time nq and input channel
\* tm: test quit, sample now, release what is due, then enter recv_timeout.
\* A send on a closed to_forward ends the thread.
MangleTop(q, nq, tm) ==
    IF quit
    THEN /\ MangleReturn("quit")
         /\ UNCHANGED << to_forward, released >>
    ELSE LET d == Drain(q, << >>, clock)
         IN  IF d[2] # << >> /\ forward_pc = "done"
             THEN /\ MangleReturn("closed")
                  /\ UNCHANGED << to_forward, released >>
             ELSE /\ mangle_pc' = "wait"
                  /\ now' = clock
                  /\ queue' = d[1]
                  /\ next_queued' = nq
                  /\ to_mangler' = tm
                  /\ to_forward' = to_forward \o d[2]
                  /\ released' = released \o Stamp(d[2], clock)
                  /\ UNCHANGED exit

mangle_start ==
    /\ mangle_pc = "start"
    /\ MangleTop(queue, next_queued, to_mangler)
    /\ UNCHANGED << clock, config, quit, errs, listen_vars, forward_vars,
                    ctl_vars, nrecv, mangled, sent, received, stop_time,
                    nupd, published, lossy >>

\* Mutant: the size is compared with the wrong field.
Oversize_buffer_size(p, c) == Len(p.content) > c.buffer_size

\* The policy of one packet under the snapshot c.
Oversize(p, c) == Len(p.content) > c.max_payload_size

\* Mutant: the comparison of the draw is reversed.
Lost_reversed(c, u) == c.loss_factor # 0 /\ u > c.loss_factor

\* u is the draw rng.random::<f64>() in [0, 1), in units of 1/LossScale.
Lost(c, u) == c.loss_factor # 0 /\ u < c.loss_factor

\* Mutant: the ping comes from an earlier load of the configuration than
\* the size check, the loss check and the jitter.
Delayed_second_load(p, c, o) ==
    [p EXCEPT !.send_timestamp =
        @ + (IF published[1].ping_secs # 0 THEN published[1].ping_secs
                                            ELSE 0)
          + (IF c.jitter_secs # 0 THEN o ELSE 0)]

\* o is the draw rng.random_range(0.0..=jitter_secs).
Delayed(p, c, o) ==
    [p EXCEPT !.send_timestamp =
        @ + (IF c.ping_secs # 0 THEN c.ping_secs ELSE 0)
          + (IF c.jitter_secs # 0 THEN o ELSE 0)]

\* The wake-up time after an insert.
NextQueued(q, t) ==
    IF q # {} THEN BTreeLast(q).send_timestamp
    ELSE t + DEFAULT_POLL_INTERVAL

\* History: the timestamp and content the packet arrived with, the snapshot
\* it was checked under, the outcome and the release time it was given.
Verdict(p, c, v, r) ==
    [T |-> p.send_timestamp, content |-> p.content, cfg |-> c,
     verdict |-> v, release |-> r]

\* recv_timeout returns a packet: load the configuration once, apply the
\* policy, insert the packet and set the next wake-up time.
mangle_recv ==
    /\ mangle_pc = "wait"
    /\ to_mangler # << >>
    /\ LET p == Head(to_mangler)
           c == config
       IN  \E u \in 0..(LossScale - 1), o \in 0..c.jitter_secs :
             IF Oversize(p, c)
             THEN /\ mangled' = mangled @@
                         (p.id :> Verdict(p, c, "oversize", -1))
                  /\ MangleTop(queue, next_queued, Tail(to_mangler))
             ELSE IF Lost(c, u)
             THEN /\ mangled' = mangled @@
                         (p.id :> Verdict(p, c, "lost", -1))
                  /\ MangleTop(queue, next_queued, Tail(to_mangler))
             ELSE LET m == Delayed(p, c, o)
                      q == BTreeInsert(queue, m)
                  IN  /\ mangled' = mangled @@
                           (p.id :> Verdict(p, c, "inserted",
                                            m.send_timestamp))
                      /\ MangleTop(q, NextQueued(q, now),
                                   Tail(to_mangler))
    /\ UNCHANGED << clock, config, quit, errs, listen_vars, forward_vars,
                    ctl_vars, nrecv, sent, received, stop_time, nupd, published,
                    lossy >>

\* recv_timeout returns Timeout: the wake-up time is set from the now
\* sampled at the top of this iteration.
mangle_timeout ==
    /\ mangle_pc = "wait"
    /\ to_mangler = << >>
    /\ listen_pc # "done"
    /\ clock >= MangleDeadline
    /\ MangleTop(queue, now + DEFAULT_POLL_INTERVAL, to_mangler)
    /\ UNCHANGED << clock, config, quit, errs, listen_vars, forward_vars,
                    ctl_vars, nrecv, mangled, sent, received, stop_time,
                    nupd, published, lossy >>

\* recv_timeout returns Disconnected: the channel is empty and the
\* Listener has dropped its sender.
mangle_disconnected ==
    /\ mangle_pc = "wait"
    /\ to_mangler = << >>
    /\ listen_pc = "done"
    /\ MangleReturn("closed")
    /\ UNCHANGED << clock, config, quit, to_forward, errs, listen_vars,
                    forward_vars, ctl_vars, nrecv, mangled, released, sent,
                    received, stop_time, nupd, published, lossy >>

\* ------------------------------------------------------------- Forwarder
\* forward_pc: "start", "recv" blocked in recv, "send" blocked in
\* socket.send, "done".

\* The thread returns: the socket, the receiver (with the packets still in
\* to_forward) and the held packet are dropped.
ForwardReturn(why) ==
    /\ forward_pc' = "done"
    /\ packet' = None
    /\ forward_deadline' = 0
    /\ forward_checked' = 0
    /\ to_forward' = << >>
    /\ exit' = [exit EXCEPT !["forward"] = why]

\* socket.send on the held packet h, which returns within the write timeout.
ForwardSend(h) ==
    /\ forward_pc' = "send"
    /\ packet' = h
    /\ forward_deadline' = clock + WRITE_TIMEOUT

\* Top of the loop holding h: test quit, then block in recv (nothing held)
\* or send the held packet again.
ForwardTop(h) ==
    IF quit
    THEN ForwardReturn("quit")
    ELSE IF h = None
    THEN /\ forward_pc' = "recv"
         /\ packet' = None
         /\ forward_deadline' = 0
         /\ forward_checked' = clock
         /\ UNCHANGED << exit, to_forward >>
    ELSE /\ ForwardSend(h)
         /\ forward_checked' = clock
         /\ UNCHANGED << exit, to_forward >>

forward_start ==
    /\ forward_pc = "start"
    /\ ForwardTop(packet)
    /\ UNCHANGED << clock, config, quit, to_mangler, errs, listen_vars,
                    mangle_vars, ctl_vars, nrecv, mangled, released, sent,
                    received, stop_time, nupd, published, lossy >>

\* Mutant: the newest packet of the queue is taken first.
forward_recv_newest ==
    /\ forward_pc = "recv"
    /\ to_forward # << >>
    /\ to_forward' = SubSeq(to_forward, 1, Len(to_forward) - 1)
    /\ ForwardSend(to_forward[Len(to_forward)])
    /\ UNCHANGED << forward_checked, clock, config, quit, to_mangler, errs,
                    listen_vars, mangle_vars, ctl_vars, nrecv, mangled,
                    released, sent, received, exit, stop_time, nupd,
                    published, lossy >>

\* recv returns a packet; it is held and socket.send is entered.
forward_recv ==
    /\ forward_pc = "recv"
    /\ to_forward # << >>
    /\ to_forward' = Tail(to_forward)
    /\ ForwardSend(Head(to_forward))
    /\ UNCHANGED << forward_checked, clock, config, quit, to_mangler, errs, listen_vars,
                    mangle_vars, ctl_vars, nrecv, mangled, released, sent,
                    received, exit, stop_time, nupd, published, lossy >>

\* Mutant: a closed input queue is reported on the error channel.
forward_disconnected_publishes ==
    /\ forward_pc = "recv"
    /\ to_forward = << >>
    /\ mangle_pc = "done"
    /\ errs' = Append(errs, "forward")
    /\ ForwardReturn("closed")
    /\ UNCHANGED << clock, config, quit, to_mangler, listen_vars,
                    mangle_vars, ctl_vars, nrecv, mangled, released, sent,
                    received, stop_time, nupd, published, lossy >>

\* recv returns RecvError: the channel is empty and the Delay Engine has
\* dropped its sender.
forward_disconnected ==
    /\ forward_pc = "recv"
    /\ to_forward = << >>
    /\ mangle_pc = "done"
    /\ ForwardReturn("closed")
    /\ UNCHANGED << clock, config, quit, to_mangler, errs, listen_vars,
                    mangle_vars, ctl_vars, nrecv, mangled, released, sent,
                    received, stop_time, nupd, published, lossy >>

\* socket.send succeeds: the held packet is forgotten.
forward_send_ok ==
    /\ forward_pc = "send"
    /\ sent' = Append(sent, packet.content)
    /\ ForwardTop(None)
    /\ UNCHANGED << clock, config, quit, to_mangler, errs, listen_vars,
                    mangle_vars, ctl_vars, nrecv, mangled, released,
                    received, stop_time, nupd, published, lossy >>

\* Mutant: the held packet is forgotten on a timeout as well.
forward_send_timeout_forgets ==
    /\ forward_pc = "send"
    /\ clock >= forward_deadline
    /\ ForwardTop(None)
    /\ UNCHANGED << clock, config, quit, to_mangler, errs, listen_vars,
                    mangle_vars, ctl_vars, nrecv, mangled, released, sent,
                    received, stop_time, nupd, published, lossy >>

\* socket.send returns WouldBlock / TimedOut once the write timeout has
\* passed: the packet stays held.
forward_send_timeout ==
    /\ forward_pc = "send"
    /\ clock >= forward_deadline
    /\ ForwardTop(packet)
    /\ UNCHANGED << clock, config, quit, to_mangler, errs, listen_vars,
                    mangle_vars, ctl_vars, nrecv, mangled, released, sent,
                    received, stop_time, nupd, published, lossy >>

\* Mutant: the error is published and the loop goes on.
forward_error_continues ==
    /\ forward_pc = "send"
    /\ errs' = Append(errs, "forward")
    /\ ForwardTop(packet)
    /\ UNCHANGED << clock, config, quit, to_mangler, listen_vars,
                    mangle_vars, ctl_vars, nrecv, mangled, released, sent,
                    received, stop_time, nupd, published, lossy >>

\* socket.send returns any other error: publish it and leave the loop.
forward_error ==
    /\ forward_pc = "send"
    /\ errs' = Append(errs, "forward")
    /\ ForwardReturn("error")
    /\ UNCHANGED << clock, config, quit, to_mangler, listen_vars,
                    mangle_vars, ctl_vars, nrecv, mangled, released, sent,
                    received, stop_time, nupd, published, lossy >>

\* ------------------------------------------------------------ Controller
\* ctl is the position of the thread that owns the Mangler:
\*   "new" calling Mangler::new, "Err(Listener)" / "Err(Forwarder)" after
\*   a failed Mangler::new,
\*   "run" outside Drop (wait_until_complete blocks until it can return),
\*   "drop_wait", "join_listen", "join_mangler", "join_forward" inside Drop,
\*   "dropped" after Drop has returned.

\* Mutant: the store also re-stamps the packets waiting in the release
\* queue with the new ping.
update_config_retroactive(c) ==
    /\ ctl = "run"
    /\ nupd < MaxUpdates
    /\ config' = c
    /\ nupd' = nupd + 1
    /\ lossy' = (lossy \/ c.loss_factor # 0)
    /\ published' = Append(published, c)
    /\ queue' = { [p EXCEPT !.send_timestamp = mangled[p.id].T + c.ping_secs] :
                    p \in queue }
    /\ UNCHANGED << clock, quit, to_mangler, to_forward, errs, listen_vars,
                    mangle_pc, now, next_queued, forward_vars, ctl_vars,
                    nrecv, mangled, released, sent, received, exit,
                    stop_time >>

\* Mangler::update_config: one atomic store of the whole value.
update_config(c) ==
    /\ ctl = "run"
    /\ nupd < MaxUpdates
    /\ config' = c
    /\ nupd' = nupd + 1
    /\ lossy' = (lossy \/ c.loss_factor # 0)
    /\ published' = Append(published, c)
    /\ UNCHANGED << clock, quit, to_mangler, to_forward, errs, listen_vars,
                    mangle_vars, forward_vars, ctl_vars, nrecv, mangled,
                    released, sent, received, exit, stop_time >>

\* Mutant: stop flips the flag.
stop_toggle ==
    /\ ctl = "run"
    /\ quit' = ~quit
    /\ stop_time' = IF stop_time = -1 THEN clock ELSE stop_time
    /\ UNCHANGED << clock, config, to_mangler, to_forward, errs,
                    listen_vars, mangle_vars, forward_vars, ctl_vars, nrecv,
                    mangled, released, sent, received, exit, nupd, published,
                    lossy >>

\* Mangler::stop: store true into quit.
stop ==
    /\ ctl = "run"
    /\ quit' = TRUE
    /\ stop_time' = IF stop_time = -1 THEN clock ELSE stop_time
    /\ UNCHANGED << clock, config, to_mangler, to_forward, errs,
                    listen_vars, mangle_vars, forward_vars, ctl_vars, nrecv,
                    mangled, released, sent, received, exit, nupd, published, lossy >>

\* Mutant: the Mangler keeps the original err_send, which never goes away.
SendersDropped_original_kept == FALSE

\* Every worker owns one clone of err_send until it terminates.
SendersDropped ==
    listen_pc = "done" /\ mangle_pc = "done" /\ forward_pc = "done"

\* Mutant: try_recv instead of recv, an empty channel counts as closed.
RecvReady_try_recv == TRUE

\* errs.recv() can return: a message is queued, or the channel is empty
\* and every sender is gone.
RecvReady == errs # << >> \/ SendersDropped

\* The value wait_until_complete returns, and what it leaves in errs.
RecvResult == IF errs # << >> THEN Head(errs) ELSE "ok"
RecvRest == IF errs # << >> THEN Tail(errs) ELSE errs

\* Mangler::wait_until_complete: errs.recv(), Err on a message, Ok on a
\* closed channel.
wait_until_complete ==
    /\ ctl = "run"
    /\ RecvReady
    /\ wait_result' = RecvResult
    /\ errs' = RecvRest
    /\ ctl' = "run"
    /\ UNCHANGED << bind_failed, clock, config, quit, to_mangler, to_forward,
                    listen_vars, mangle_vars, forward_vars, nrecv, mangled,
                    released, sent, received, exit, stop_time, nupd, published, lossy >>

\* Drop for Mangler: stop(), wait_until_complete(), then the three joins.
drop_stop ==
    /\ ctl = "run"
    /\ quit' = TRUE
    /\ stop_time' = IF stop_time = -1 THEN clock ELSE stop_time
    /\ ctl' = "drop_wait"
    /\ UNCHANGED << clock, config, to_mangler, to_forward, errs,
                    listen_vars, mangle_vars, forward_vars, wait_result, bind_failed,
                    nrecv, mangled, released, sent, received, exit, nupd, published,
                    lossy >>

drop_wait ==
    /\ ctl = "drop_wait"
    /\ RecvReady
    /\ wait_result' = RecvResult
    /\ errs' = RecvRest
    /\ ctl' = "join_listen"
    /\ UNCHANGED << bind_failed, clock, config, quit, to_mangler, to_forward,
                    listen_vars, mangle_vars, forward_vars, nrecv, mangled,
                    released, sent, received, exit, stop_time, nupd, published, lossy >>

\* Mutant: the handles are dropped without joining.
Joined_detached(step) == TRUE

\* JoinHandle::join returns once the thread has terminated.
Joined(step) ==
    CASE step = "join_listen" -> listen_pc = "done"
      [] step = "join_mangler" -> mangle_pc = "done"
      [] step = "join_forward" -> forward_pc = "done"

AfterJoin(step) ==
    CASE step = "join_listen" -> "join_mangler"
      [] step = "join_mangler" -> "join_forward"
      [] step = "join_forward" -> "dropped"

drop_join ==
    /\ ctl \in { "join_listen", "join_mangler", "join_forward" }
    /\ Joined(ctl)
    /\ ctl' = AfterJoin(ctl)
    /\ UNCHANGED << clock, config, quit, to_mangler, to_forward, errs,
                    listen_vars, mangle_vars, forward_vars, wait_result, bind_failed,
                    nrecv, mangled, released, sent, received, exit,
                    stop_time, nupd, published, lossy >>

\* ------------------------------------------------------------------ time
\* A worker lets time pass only while it is blocked: in a timed wait whose
\* timeout has not passed, or in a receive with nothing to return.
ListenBlocked ==
    \/ listen_pc = "done"
    \/ listen_pc = "recv" /\ clock < listen_deadline

MangleBlocked ==
    \/ mangle_pc = "done"
    \/ /\ mangle_pc = "wait"
       /\ to_mangler = << >>
       /\ listen_pc # "done"
       /\ clock < MangleDeadline

ForwardBlocked ==
    \/ forward_pc = "done"
    \/ forward_pc = "recv" /\ to_forward = << >> /\ mangle_pc # "done"
    \/ forward_pc = "send" /\ clock < forward_deadline

\* The environment delivers at most n datagrams, early enough for their
\* release times to lie within MaxTime.
Arrival(n) == nrecv < n /\ clock + MaxDelay <= MaxTime

Tick ==
    /\ clock < MaxTime
    /\ ListenBlocked /\ MangleBlocked /\ ForwardBlocked
    /\ clock' = clock + 1
    /\ UNCHANGED << config, quit, to_mangler, to_forward, errs,
                    listen_vars, mangle_vars, forward_vars, ctl_vars, nrecv,
                    mangled, released, sent, received, exit, stop_time,
                    nupd, published, lossy >>

Next ==
    \/ \E failed \in BindOutcomes : new(failed)
    \/ listen_start
    \/ \E d \in Datagrams : Arrival(LifePackets) /\ listen_recv(d)
    \/ listen_timeout
    \/ listen_error
    \/ mangle_start
    \/ mangle_recv
    \/ mangle_timeout
    \/ mangle_disconnected
    \/ forward_start
    \/ forward_recv
    \/ forward_disconnected
    \/ forward_send_ok
    \/ forward_send_timeout
    \/ forward_error
    \/ \E c \in Configs : update_config(c)
    \/ stop
    \/ wait_until_complete
    \/ drop_stop
    \/ drop_wait
    \/ drop_join
    \/ Tick

Spec == Init /\ [][Next]_vars


\* The pipeline under traffic and reconfiguration, with no stop and no
\* socket error: no worker terminates.
DataNext ==
    \/ \E failed \in BindOutcomes : new(failed)
    \/ listen_start
    \/ \E d \in Datagrams : Arrival(MaxPackets) /\ listen_recv(d)
    \/ listen_timeout
    \/ mangle_start
    \/ mangle_recv
    \/ mangle_timeout
    \/ forward_start
    \/ forward_recv
    \/ forward_send_ok
    \/ forward_send_timeout
    \/ \E c \in Configs : update_config(c)
    \/ Tick

DataSpec == Init /\ [][DataNext]_vars


\* The pipeline under traffic, socket errors and stop, with the
\* configuration of the construction kept and the owner never waiting and
\* never dropping the Mangler: every way in which a worker terminates,
\* with more than one packet in flight.
FaultNext ==
    \/ \E failed \in BindOutcomes : new(failed)
    \/ listen_start
    \/ \E d \in Datagrams : Arrival(MaxPackets) /\ listen_recv(d)
    \/ listen_timeout
    \/ listen_error
    \/ mangle_start
    \/ mangle_recv
    \/ mangle_timeout
    \/ mangle_disconnected
    \/ forward_start
    \/ forward_recv
    \/ forward_disconnected
    \/ forward_send_ok
    \/ forward_send_timeout
    \/ forward_error
    \/ stop
    \/ Tick

FaultSpec == Init /\ [][FaultNext]_vars


\* Time beyond MaxTime: with every worker blocked, one more timeout
\* interval passes and every pending timed wait has reached its deadline.
\* The clock stays at MaxTime.
Horizon ==
    /\ clock = MaxTime
    /\ ListenBlocked /\ MangleBlocked /\ ForwardBlocked
    /\ listen_deadline' = Min(listen_deadline, MaxTime)
    /\ next_queued' = Min(next_queued, MaxTime)
    /\ forward_deadline' = Min(forward_deadline, MaxTime)
    /\ UNCHANGED << clock, config, quit, to_mangler, to_forward, errs,
                    listen_pc, buffer_len, mangle_pc, now, queue,
                    forward_pc, packet, forward_checked, ctl_vars, nrecv,
                    mangled, released, sent, received, exit, stop_time,
                    nupd, published, lossy >>

\* Every step of Next but update_config (the configuration of the
\* construction is kept), and the passing of time beyond MaxTime.
LiveNext ==
    \/ \E failed \in BindOutcomes : new(failed)
    \/ listen_start
    \/ \E d \in Datagrams : Arrival(LifePackets) /\ listen_recv(d)
    \/ listen_timeout
    \/ listen_error
    \/ mangle_start
    \/ mangle_recv
    \/ mangle_timeout
    \/ mangle_disconnected
    \/ forward_start
    \/ forward_recv
    \/ forward_disconnected
    \/ forward_send_ok
    \/ forward_send_timeout
    \/ forward_error
    \/ stop
    \/ wait_until_complete
    \/ drop_stop
    \/ drop_wait
    \/ drop_join
    \/ Tick
    \/ Horizon

\* Every thread that can run does run, and time passes: a worker returns
\* from a call that can return, Drop goes on when its recv or its join can
\* return.  Nothing is assumed of the network, of the sockets accepting a
\* send, or of the calls the owner makes before Drop.
Fairness ==
    /\ WF_vars(listen_start \/ listen_timeout)
    /\ WF_vars(mangle_start \/ mangle_recv \/ mangle_timeout
                   \/ mangle_disconnected)
    /\ WF_vars(forward_start \/ forward_recv \/ forward_disconnected
                   \/ forward_send_timeout)
    /\ WF_vars(drop_wait \/ drop_join)
    /\ WF_vars(Tick \/ Horizon)

LiveSpec == Init /\ [][LiveNext]_vars /\ Fairness


\* ============================================================ properties
ReleasedIds == { released[i].pkt.id : i \in 1..Len(released) }
QueueIds == { p.id : p \in queue }
ForwardIds ==
    { to_forward[i].id : i \in 1..Len(to_forward) }
        \cup (IF packet = None THEN {} ELSE { packet.id })
Checked == DOMAIN mangled
Running(w) == exit[w] = "running"
NoFatal == \A w \in Workers : exit[w] # "error"

\* C1: packets are pushed to the Forwarder's queue in non-decreasing
\* release_time order: whenever P1 was pushed before P2,
\* P1.release_time <= P2.release_time.
C1_ReleaseOrder ==
    \A i, j \in 1..Len(released) :
        i < j => released[i].pkt.send_timestamp
                    <= released[j].pkt.send_timestamp

\* C2: a packet inserted while another packet with the same release_time is
\* pending is retained: as long as the Delay Engine runs, every packet it
\* inserted is in the release queue or has been pushed to the Forwarder.
C2_EqualTimesRetained ==
    mangle_pc # "done" =>
        \A id \in Checked :
            mangled[id].verdict = "inserted" =>
                id \in QueueIds \cup ReleasedIds

\* C3: with loss_factor 0.0 throughout, no stop and no fatal error, every
\* packet the Listener pushed whose length is within max_payload_size is
\* eventually pushed to the Forwarder's queue.  Stated here as what every
\* such run must maintain: once such a packet has passed the policy check
\* it is waiting in the release queue or has been pushed to the Forwarder.
C3_AcceptedNeverLost ==
    (~lossy /\ ~quit /\ \A w \in Workers : Running(w)) =>
        \A id \in Checked :
            Len(mangled[id].content) <= mangled[id].cfg.max_payload_size
                => id \in QueueIds \cup ReleasedIds

\* C4: with the configuration never changed, a packet stamped at T is
\* pushed to the Forwarder's queue at a time in [T + p, T + p + j].
C4_ReleaseWindow ==
    nupd = 0 =>
        \A i \in 1..Len(released) :
            LET m == mangled[released[i].pkt.id]
            IN  /\ m.T + m.cfg.ping_secs <= released[i].at
                /\ released[i].at
                       <= m.T + m.cfg.ping_secs + m.cfg.jitter_secs

\* C5: a packet longer than the max_payload_size of the snapshot read at
\* its policy check is never in the release queue and never reaches the
\* Forwarder.
C5_OversizeNeverForwarded ==
    \A id \in Checked :
        Len(mangled[id].content) > mangled[id].cfg.max_payload_size =>
            id \notin QueueIds \cup ReleasedIds \cup ForwardIds

\* An oversize packet was checked after a configuration update.
C5_Witness ==
    \E id \in Checked :
        /\ Len(mangled[id].content) > mangled[id].cfg.max_payload_size
        /\ nupd > 0

\* C6: a packet whose policy check read loss_factor = 1.0 is never in the
\* release queue and never reaches the Forwarder.
C6_TotalLossDropsAll ==
    \A id \in Checked :
        mangled[id].cfg.loss_factor = LossScale =>
            id \notin QueueIds \cup ReleasedIds \cup ForwardIds

\* A packet within the size limit was checked under loss_factor 1.0.
C6_Witness ==
    \E id \in Checked :
        /\ mangled[id].cfg.loss_factor = LossScale
        /\ Len(mangled[id].content) <= mangled[id].cfg.max_payload_size

\* The socket timeouts set in Mangler::new bound a blocking recv_from/send.
IoTimeout == Max(READ_TIMEOUT, WRITE_TIMEOUT)
StopBound == stop_time + DEFAULT_POLL_INTERVAL + IoTimeout

\* C7: after stop(), with no fatal socket error, all three workers have
\* terminated once one default poll interval plus the socket timeout has
\* passed, whatever is pending, and wait_until_complete then returns Ok.
C7_StopTerminatesWithinBound ==
    (quit /\ NoFatal) =>
        /\ clock > StopBound => SendersDropped
        /\ SendersDropped => RecvReady /\ RecvResult = "ok"

\* The workers are down within the bound although a packet was pending
\* with a release time beyond it.
C7_Witness ==
    /\ quit /\ NoFatal /\ SendersDropped
    /\ clock <= StopBound
    /\ \E id \in Checked :
          /\ mangled[id].verdict = "inserted"
          /\ mangled[id].release > StopBound
          /\ id \notin ReleasedIds

\* C8 (as stated): while stop() has not been called, a worker's fatal
\* socket error terminates only that worker; every other worker keeps
\* running unless it has a fatal error of its own.
C8_OthersKeepRunning ==
    ~quit => \A w \in Workers : exit[w] \in { "running", "error" }

\* C8 (amended): a fatal socket error never raises the shutdown flag, and
\* while stop() has not been called a worker terminates only on its own
\* fatal socket error or on finding a queue to a terminated neighbour
\* closed; nothing terminates before the first fatal error.
C8_TerminationOnlyThroughClosure ==
    /\ quit => stop_time # -1
    /\ ~quit =>
        /\ exit["listen"] \in { "running", "error", "closed" }
        /\ exit["mangle"] \in { "running", "closed" }
        /\ exit["forward"] \in { "running", "error", "closed" }
        /\ exit["listen"] = "closed" => mangle_pc = "done"
        /\ exit["mangle"] = "closed" =>
               listen_pc = "done" \/ forward_pc = "done"
        /\ exit["forward"] = "closed" => mangle_pc = "done"
        /\ NoFatal => \A w \in Workers : Running(w)

\* The Listener's error has taken the other two workers down.
C8_Witness ==
    /\ ~quit
    /\ exit["listen"] = "error"
    /\ exit["mangle"] = "closed"
    /\ exit["forward"] = "closed"

\* C9: wait_until_complete returns Err(e) only for the oldest unconsumed
\* error e, which a worker published, and consumes it; it returns Ok only
\* when no error is pending and all three workers have terminated.
C9_Return ==
    wait_result' # wait_result =>
        IF wait_result' = "ok"
        THEN SendersDropped /\ errs = << >> /\ errs' = errs
        ELSE /\ errs # << >>
             /\ wait_result' = Head(errs)
             /\ errs' = Tail(errs)
             /\ exit[wait_result'] = "error"

C9_WaitResult ==
    /\ [](wait_result = "ok" => SendersDropped /\ errs = << >>)
    /\ [][C9_Return]_vars

\* An error was returned first and Ok afterwards.
C9_Witness == wait_result = "ok" /\ ~NoFatal

\* The owner of the Mangler is inside Drop or past it.
InDrop ==
    ctl \in { "drop_wait", "join_listen", "join_mangler", "join_forward",
              "dropped" }

\* C10: Drop raises the shutdown flag and has returned only when the
\* Listener, the Delay Engine and the Forwarder have all terminated.
C10_DropJoinsAll ==
    /\ InDrop => quit
    /\ ctl = "dropped" => SendersDropped

\* Drop has returned in a run in which a worker had died of a socket error.
C10_Witness == ctl = "dropped" /\ ~NoFatal


\* The outcome m of a policy check is one that the configuration c gives.
EvaluatedUnder(m, c) ==
    CASE m.verdict = "oversize" ->
            Len(m.content) > c.max_payload_size
      [] m.verdict = "lost" ->
            /\ Len(m.content) <= c.max_payload_size
            /\ c.loss_factor # 0
      [] m.verdict = "inserted" ->
            /\ Len(m.content) <= c.max_payload_size
            /\ c.loss_factor < LossScale
            /\ m.release >= m.T + c.ping_secs
            /\ m.release <= m.T + c.ping_secs + c.jitter_secs

\* Every packet past the policy check and not yet sent: in the release
\* queue, in to_forward or held by the Forwarder.
Pending ==
    queue \cup { to_forward[i] : i \in 1..Len(to_forward) }
          \cup (IF packet = None THEN {} ELSE { packet })

\* C11: update_config is not retroactive.  A packet past the policy check
\* keeps the decision and the release_time it was given: a step that
\* publishes a configuration changes nothing of the release queue, of
\* to_forward or of what was pushed, and every pending packet carries the
\* release_time of its own check.  A packet taken from the input queue is
\* evaluated with the configuration published at that moment.
C11_UpdateStep ==
    published' # published =>
        UNCHANGED << queue, next_queued, to_mangler, to_forward, packet,
                     mangled, released, sent >>

C11_CheckStep ==
    \A id \in DOMAIN mangled' :
        IF id \in DOMAIN mangled
        THEN mangled'[id] = mangled[id]
        ELSE EvaluatedUnder(mangled'[id], config)

C11_NotRetroactive ==
    /\ [](\A p \in Pending :
             /\ p.id \in Checked
             /\ mangled[p.id].verdict = "inserted"
             /\ p.send_timestamp = mangled[p.id].release)
    /\ [][C11_UpdateStep /\ C11_CheckStep]_vars

\* A packet waits in the release queue with a release_time the published
\* configuration could not have given it, and a later packet has been
\* evaluated under the published configuration.
C11_Witness ==
    /\ nupd > 0
    /\ \E p \in queue : \E j \in Checked :
          /\ j > p.id
          /\ ~EvaluatedUnder(mangled[p.id], config)
          /\ mangled[j].cfg = config
          /\ mangled[j].cfg # mangled[p.id].cfg

\* C12: the size check, the loss check, the ping and the jitter of one
\* packet all use the fields of one published configuration value: the
\* outcome of every policy check is an outcome that a single value among
\* those published gives, never a mix of the fields of two of them.  The
\* Listener sizes its buffer from one published value as well.
C12_OneSnapshotPerPacket ==
    /\ \A id \in Checked :
          \E i \in 1..Len(published) :
              EvaluatedUnder(mangled[id], published[i])
    /\ listen_pc = "recv" =>
          \E i \in 1..Len(published) : buffer_len = published[i].buffer_size

\* A packet was checked after an update_config, with an outcome that the
\* configuration published before gives to no packet of its length.
C12_Witness ==
    /\ Len(published) > 1
    /\ \E id \in Checked :
          /\ mangled[id].cfg = published[Len(published)]
          /\ mangled[id].verdict = "inserted"
          /\ ~EvaluatedUnder(mangled[id], published[1])

\* C13: the content of every packet the Forwarder transmits equals the
\* content of a datagram that arrived at the Listener, byte for byte and
\* in length; on its way through the pipeline a packet carries the whole
\* datagram it was made from.
C13_ContentPreserved ==
    /\ \A i \in 1..Len(sent) :
          \E k \in 1..Len(received) : sent[i] = received[k]
    /\ \A p \in Pending \cup { to_mangler[i] : i \in 1..Len(to_mangler) } :
          /\ p.id \in 1..Len(received)
          /\ p.content = received[p.id]

\* A two-byte payload was transmitted whole in a run in which a datagram
\* that fills the receive buffer arrived as well.
C13_Witness ==
    /\ \E i \in 1..Len(sent) : Len(sent[i]) = 2
    /\ \E k \in 1..Len(received) : Len(received[k]) = 3

\* C14: the shutdown flag is false when the Mangler is constructed and
\* only ever changes from false to true: no step resets it.  A stop()
\* called when the flag is already set leaves the whole state as it was.
\* stop() can return whenever it is called, whatever the workers are
\* doing.
C14_FlagOnlyRises ==
    /\ ~quit
    /\ [][quit => quit']_vars
    /\ [][(quit /\ stop) => UNCHANGED vars]_vars
    /\ [](ctl = "run" => ENABLED stop)

\* stop() has returned while all three workers are still blocked in their
\* waits.
C14_Witness ==
    /\ quit /\ ctl = "run"
    /\ listen_pc = "recv" /\ mangle_pc = "wait" /\ forward_pc = "recv"

\* C15: when binding the listening socket fails Mangler::new returns the
\* Listener variant, when binding or connecting the forwarding socket
\* fails it returns the Forwarder variant, and when it has returned an
\* error no worker thread has been started.
C15_NewFailure ==
    /\ bind_failed = "listen_bind" => ctl = "Err(Listener)"
    /\ bind_failed \in { "forward_bind", "forward_connect" } =>
          ctl = "Err(Forwarder)"
    /\ ctl \in { "Err(Listener)", "Err(Forwarder)" } =>
          /\ bind_failed # "none"
          /\ listen_pc = "none" /\ mangle_pc = "none" /\ forward_pc = "none"
          /\ \A w \in Workers : Running(w)

\* Mangler::new has returned after a failed connect of the forwarding
\* socket.
C15_Witness == bind_failed = "forward_connect" /\ ctl # "new"

\* The longest wait the program sets a bound for when nothing is pending:
\* one default poll interval plus the socket timeout.
LongestBound == DEFAULT_POLL_INTERVAL + IoTimeout

\* The Listener's and the Delay Engine's waits end at a deadline, which
\* for the Delay Engine with an empty release queue is at most one default
\* poll interval after the flag was read.
TimedWaits ==
    /\ listen_pc = "recv" =>
          /\ clock <= listen_deadline
          /\ ENABLED listen_timeout \/ clock < listen_deadline
    /\ mangle_pc = "wait" =>
          /\ clock <= MangleDeadline
          /\ queue = {} => MangleDeadline <= now + DEFAULT_POLL_INTERVAL

\* C16: every blocking wait of every worker is bounded, so each running
\* worker has read the shutdown flag within the bound of its wait: the
\* Listener within the read timeout, the Delay Engine by the deadline of
\* its input wait (at most one default poll interval with an empty release
\* queue), the Forwarder within the longest bound the program sets.
C16_FlagRereadWithinBound ==
    /\ TimedWaits
    /\ forward_pc \in { "recv", "send" } =>
          clock - forward_checked <= LongestBound

\* C17: at the end of every drain-release phase, when the Delay Engine
\* enters its input wait, no packet whose release_time is at or before the
\* now of that iteration remains in the release queue.
C17_DrainComplete ==
    mangle_pc = "wait" => \A p \in queue : p.send_timestamp > now

\* The smallest release_time among the packets of q.
Earliest(q) ==
    CHOOSE t \in { p.send_timestamp : p \in q } :
        \A p \in q : t <= p.send_timestamp

\* C18: a step of the Delay Engine that inserts a packet sets the wake
\* deadline to the smallest release_time among the packets in the release
\* queue after the insert.
C18_InsertStep ==
    \A id \in DOMAIN mangled' \ DOMAIN mangled :
        (mangled'[id].verdict = "inserted" /\ mangle_pc' = "wait") =>
            next_queued' =
                Earliest(BTreeInsert(queue,
                    [send_timestamp |-> mangled'[id].release]))

C18_WakeAtEarliest == [][C18_InsertStep]_vars

\* C19: the Delay Engine never pushes a packet to the Forwarder's queue
\* before its release_time: at every push the packet's release_time is at
\* or before the current time, and it is at least the Listener's receive
\* timestamp plus the ping_secs applied to the packet.
C19_NeverEarly ==
    \A i \in 1..Len(released) :
        LET p == released[i].pkt
            m == mangled[p.id]
        IN  /\ p.send_timestamp <= released[i].at
            /\ p.send_timestamp >= m.T + m.cfg.ping_secs

\* A packet delayed by a ping was pushed at the very instant it was due.
C19_Witness ==
    \E i \in 1..Len(released) :
        LET p == released[i].pkt
        IN  /\ mangled[p.id].cfg.ping_secs > 0
            /\ released[i].at = p.send_timestamp

\* The packets pushed to the Forwarder's queue, in the order of the pushes.
Pushed == [i \in 1..Len(released) |-> released[i].pkt]

\* The packet the Forwarder holds, as a sequence.
Held == IF packet = None THEN << >> ELSE << packet >>

\* C20: as long as the Forwarder runs, each packet it has taken from its
\* input queue has been sent successfully exactly once before the next
\* one is taken: the payloads sent are those of the first packets pushed,
\* one each and in order, followed by the held packet and the packets
\* still queued, all unchanged.  A timeout of the send therefore leaves
\* the same packet held, and no packet is fetched, dropped or re-stamped
\* meanwhile.
C20_SentExactlyOnce ==
    forward_pc \in { "recv", "send" } =>
        /\ Len(sent) + Len(Held) + Len(to_forward) = Len(Pushed)
        /\ \A i \in 1..Len(sent) : sent[i] = Pushed[i].content
        /\ Held \o to_forward = SubSeq(Pushed, Len(sent) + 1, Len(Pushed))
        /\ forward_pc = "recv" <=> packet = None

\* The first packet pushed is held in a send entered after a timeout of
\* its first send, while the next packet waits in the input queue.
C20_Witness ==
    /\ forward_pc = "send"
    /\ sent = << >>
    /\ to_forward # << >>
    /\ forward_deadline - WRITE_TIMEOUT > released[1].at

\* The Listener numbers the datagrams in the order of their arrival, so
\* the ids of the packets it pushed grow in the order of its pushes.
C21_ListenPush ==
    Len(to_mangler') > Len(to_mangler) =>
        /\ to_mangler' = Append(to_mangler, to_mangler'[Len(to_mangler')])
        /\ to_mangler'[Len(to_mangler')].id = nrecv'
        /\ nrecv' = nrecv + 1

\* The Delay Engine takes the packet at the head of its input queue.
C21_MangleTake ==
    \A id \in DOMAIN mangled' \ DOMAIN mangled :
        /\ to_mangler # << >>
        /\ id = Head(to_mangler).id
        /\ mangle_pc' # "done" => to_mangler' = Tail(to_mangler)

\* The Forwarder transmits the oldest packet pushed and not yet sent.
C21_ForwardSend ==
    sent' # sent =>
        /\ Len(sent') = Len(sent) + 1
        /\ Len(sent') <= Len(Pushed)
        /\ packet = Pushed[Len(sent')]
        /\ sent' = Append(sent, Pushed[Len(sent')].content)

\* C21: the queue hand-offs preserve order.  The Delay Engine takes the
\* packets from its input queue in the order in which the Listener pushed
\* them: the packets still queued are in the order of their pushes and
\* all of them were pushed after every packet already taken.  The
\* Forwarder transmits the packets in the order in which the Delay Engine
\* pushed them to its output queue.
C21_HandOffOrder ==
    /\ [](\A i \in 1..Len(to_mangler) :
             /\ \A j \in 1..Len(to_mangler) :
                   i < j => to_mangler[i].id < to_mangler[j].id
             /\ \A id \in Checked : id < to_mangler[i].id)
    /\ [][C21_ListenPush /\ C21_MangleTake /\ C21_ForwardSend]_vars

\* Two packets were taken by the Delay Engine in the order of their
\* arrival and transmitted by the Forwarder in the order of their pushes,
\* the later arrival first.
C21_Witness ==
    /\ Len(sent) = 2
    /\ Checked = { 1, 2 }
    /\ Pushed[1].id = 2 /\ Pushed[2].id = 1

\* The position of worker w.
Pc(w) ==
    CASE w = "listen" -> listen_pc
      [] w = "mangle" -> mangle_pc
      [] w = "forward" -> forward_pc

\* A step that adds a message to the error channel: the sender is the
\* Listener or the Forwarder, it had not terminated, and the step ends it.
C22_PublishStep ==
    Len(errs') > Len(errs) =>
        LET w == errs'[Len(errs')]
        IN  /\ errs' = Append(errs, w)
            /\ w \in { "listen", "forward" }
            /\ Pc(w) # "done" /\ exit[w] = "running"
            /\ exit'[w] = "error"
            /\ w = "listen" => listen_pc' = "done"
            /\ w = "forward" => forward_pc' = "done"

\* A would-block / timeout result adds nothing to the error channel, and
\* with the shutdown flag clear the worker goes on.
C22_TimeoutStep ==
    /\ listen_timeout =>
          /\ errs' = errs
          /\ ~quit => listen_pc' = "recv" /\ exit' = exit
    /\ forward_send_timeout =>
          /\ errs' = errs
          /\ ~quit => forward_pc' = "send" /\ packet' = packet /\ exit' = exit
    /\ mangle_timeout =>
          /\ errs' = errs
          /\ exit'["mangle"] # "error"

\* C22: each worker publishes at most one error on the error channel and
\* terminates in the step that publishes it; a would-block / timeout of a
\* receive or a send publishes nothing and does not terminate the worker;
\* the Delay Engine never publishes an error.
C22_OneErrorThenExit ==
    /\ [](/\ \A w \in Workers : exit[w] = "error" => Pc(w) = "done"
          /\ exit["mangle"] # "error"
          /\ \A i \in 1..Len(errs) :
                /\ errs[i] # "mangle"
                /\ exit[errs[i]] = "error"
                /\ \A j \in 1..Len(errs) : i # j => errs[i] # errs[j])
    /\ [][C22_PublishStep /\ C22_TimeoutStep]_vars

\* The Listener and the Forwarder have each published their one error
\* after the Listener went through at least one timeout, and the
\* Delay Engine has terminated without publishing.
C22_Witness ==
    /\ exit["listen"] = "error" /\ exit["forward"] = "error"
    /\ exit["mangle"] = "closed"
    /\ Len(errs) = 2
    /\ clock > READ_TIMEOUT

\* The closed queue that worker w can find: the Listener its output, the
\* Delay Engine its drained input or its output, the Forwarder its drained
\* input.
QueueClosed(w) ==
    CASE w = "listen" -> mangle_pc = "done"
      [] w = "mangle" -> \/ listen_pc = "done" /\ to_mangler = << >>
                         \/ forward_pc = "done"
      [] w = "forward" -> mangle_pc = "done" /\ to_forward = << >>

\* A step in which a worker terminates on a closed queue: the queue was
\* closed, and nothing is added to the error channel.
C23_ClosedStep ==
    \A w \in Workers :
        (exit'[w] = "closed" /\ exit[w] # "closed") =>
            /\ exit[w] = "running"
            /\ QueueClosed(w)
            /\ errs' = errs

\* A push to a closed queue does not succeed: the Listener that stores a
\* datagram whole while the Delay Engine is gone terminates, and whatever
\* the Delay Engine adds to to_forward finds the Forwarder alive.
C23_PushStep ==
    /\ (/\ nrecv' # nrecv
         /\ mangle_pc = "done"
         /\ ~MaybeTruncated(Min(Len(received'[nrecv']), buffer_len),
                            buffer_len)) =>
            listen_pc' = "done" /\ exit'["listen"] = "closed"
    /\ released' # released => forward_pc # "done"

\* C23: a worker that finds a queue closed terminates without publishing
\* anything on the error channel: the Listener when its push fails, the
\* Delay Engine when its input is disconnected or its push to the
\* Forwarder fails, the Forwarder when its input is disconnected.  Every
\* message on the error channel is from a worker that ended by an error of
\* its own, and no packet lies in a queue whose receiver is gone.
C23_ClosedQueueSilent ==
    /\ [](/\ \A w \in Workers : exit[w] = "closed" => Pc(w) = "done"
          /\ \A i \in 1..Len(errs) : exit[errs[i]] # "closed"
          /\ mangle_pc = "done" => to_mangler = << >>
          /\ forward_pc = "done" => to_forward = << >>)
    /\ [][C23_ClosedStep /\ C23_PushStep]_vars

\* The Forwarder died of a socket error, the Delay Engine terminated when
\* its push of the next packet failed, and only the Forwarder's error is
\* on the error channel.
C23_Witness ==
    /\ ~quit
    /\ exit["forward"] = "error"
    /\ exit["mangle"] = "closed"
    /\ listen_pc # "done"
    /\ errs = << "forward" >>

\* C24: teardown always completes.  Whatever the state in which Drop
\* begins, its wait on the error channel returns and its joins of the
\* listener, mangler and forwarder threads return, in that order: Drop
\* returns.
C24_DropOrder ==
    (InDrop /\ ctl' # ctl) =>
        << ctl, ctl' >> \in { << "drop_wait", "join_listen" >>,
                              << "join_listen", "join_mangler" >>,
                              << "join_mangler", "join_forward" >>,
                              << "join_forward", "dropped" >> }

C24_TeardownCompletes ==
    /\ [][C24_DropOrder]_vars
    /\ (ctl = "drop_wait") ~> (ctl = "dropped")

\* Drop has returned in a run without socket error in which a packet
\* pushed to the Forwarder was never transmitted.
C24_Witness ==
    /\ ctl = "dropped"
    /\ NoFatal
    /\ Len(released) > Len(sent)

====
